---- MODULE Spec2Model ----
(***************************************************************************)
(* Model of the Sharp Memory Display driver (src/src/lib.rs).              *)
(*                                                                         *)
(* The driver owns a packed 1-bit-per-pixel buffer and the VCOM polarity   *)
(* flag. clear() and refresh() each perform one chip-select delimited bus  *)
(* transaction. The two collaborators (bus writer, chip-select pin) are    *)
(* the environment: each call draws their outcomes from a small set.       *)
(***************************************************************************)
EXTENDS Integers, Sequences, FiniteSets

VARIABLES
    pc,               \* "start" | "ready" | "dropped" | "panicked"
    overflow_checks,  \* the build traps u8 overflow (debug) or wraps (release)
    buffer,           \* Display::buffer, as a sequence: buffer[i] of the source is buffer[i + 1]
    vcom,             \* Display::vcom
    log,              \* pin and bus events of the latest public call, in order
    last,             \* the latest public call: operation, arguments, result
    old_buffer,       \* buffer on entry of the latest public call
    old_vcom,         \* vcom on entry of the latest public call
    cmds,             \* one entry per clear()/refresh() call made so far
    calls,            \* number of public calls made on the display since new()
    cs,               \* level of the chip-select pin: "high" | "low" | "unknown"
    old_cs,           \* cs on entry of the latest public call
    pin_faults        \* some set_low/set_high has failed so far

vars == <<pc, overflow_checks, buffer, vcom, log, last, old_buffer, old_vcom, cmds, calls,
          cs, old_cs, pin_faults>>

(***************************************************************************)
(* Program constants                                                       *)
(***************************************************************************)
WIDTH == 44
HEIGHT == 68
BUFFER_SIZE == (WIDTH * HEIGHT) \div 8
WriteCmd == 128
ClearBit == 32
VcomBit == 64

(***************************************************************************)
(* Bounds of the model                                                     *)
(***************************************************************************)
MaxCalls == 2     \* public calls made on the display after new()
MaxFailAt == 3    \* each of the first MaxFailAt writes of a refresh is made to fail

\* Coordinates handed to set_pixel/get_pixel: corners, a byte boundary, the
\* first row whose offset leaves 8 bits, and the values around WIDTH and HEIGHT.
PixelCoords ==
    {<<0, 0>>, <<8, 0>>, <<WIDTH - 1, 0>>, <<WIDTH, 0>>, <<WIDTH + 1, 0>>,
     <<0, 1>>, <<0, 6>>, <<WIDTH - 1, HEIGHT - 1>>, <<0, HEIGHT>>, <<0, HEIGHT + 1>>}

(***************************************************************************)
(* Bytes                                                                   *)
(***************************************************************************)
Pow2(n) == IF n = 0 THEN 1 ELSE IF n = 1 THEN 2 ELSE IF n = 2 THEN 4
           ELSE IF n = 3 THEN 8 ELSE IF n = 4 THEN 16 ELSE IF n = 5 THEN 32
           ELSE IF n = 6 THEN 64 ELSE 128

TestBit(b, n) == (b \div Pow2(n)) % 2 = 1
SetBit(b, n) == IF TestBit(b, n) THEN b ELSE b + Pow2(n)
ClearBitOf(b, n) == IF TestBit(b, n) THEN b - Pow2(n) ELSE b

ZeroBuffer == [i \in 1..BUFFER_SIZE |-> 0]

(***************************************************************************)
(* The environment of one call: the outcome of each pin operation and the  *)
(* position of the first failing bus write (0: none). A sticky fault makes *)
(* every later write fail too, a transient one only that write.            *)
(***************************************************************************)
WriteOk(bus, n) == \/ bus.at = 0
                   \/ n < bus.at
                   \/ n > bus.at /\ ~bus.sticky

PinEv(name, ok) == [ev |-> name, byte |-> 0, ok |-> ok]
WriteEv(data, ok) == [ev |-> "write", byte |-> data, ok |-> ok]

\* The pin events among the events of a call, by position.
PinIdx(events) == {i \in DOMAIN events : events[i].ev # "write"}

\* The level a pin event leaves: the one it names, or unknown when it failed.
LevelOf(e) == IF ~e.ok THEN "unknown" ELSE IF e.ev = "set_high" THEN "high" ELSE "low"

\* The level of chip-select before event i of a call entered at level `level`;
\* pins: the pin events of the call.
LevelBefore(level, events, pins, i) ==
    IF \A j \in pins : j >= i
    THEN level
    ELSE LevelOf(events[CHOOSE j \in pins : j < i /\ \A k \in pins : k < i => k <= j])

\* The level of chip-select once the events of a call have happened.
cs_after(level, events) == LevelBefore(level, events, PinIdx(events), Len(events) + 1)

PinFailed(events) == \E i \in PinIdx(events) : ~events[i].ok

(***************************************************************************)
(* Private helpers of Display                                              *)
(***************************************************************************)
\* Mutant: the polarity is never flipped.
toggle_vcom_stuck(v) == v

\* toggle_vcom: self.vcom = !self.vcom
toggle_vcom(v) == ~v

\* Mutant: the polarity bit is left out of the command byte.
command_without_polarity(v, opcode) == [byte |-> opcode, vcom |-> ~v]

\* Mutant: the command byte is built without the toggle.
command_without_toggle(v, opcode) ==
    [byte |-> IF v THEN SetBit(opcode, 6) ELSE opcode, vcom |-> v]

\* command: the opcode, with the polarity bit when vcom is set; vcom is
\* toggled as a side effect of building the byte.
command(v, opcode) ==
    [byte |-> IF v THEN SetBit(opcode, 6) ELSE opcode,
     vcom |-> toggle_vcom(v)]

\* write_byte: hands one byte to the bus writer; w holds the writes of the
\* transaction so far, the new write is the (Len(w) + 1)-th.
write_byte(w, data, bus) == Append(w, WriteEv(data, WriteOk(bus, Len(w) + 1)))

LastOk(w) == w[Len(w)].ok

\* get_index: into = y * WIDTH + x in u8 arithmetic, then (into / 8, into % 8).
get_index(x, y) ==
    LET into == (((y * WIDTH) % 256) + x) % 256
    IN  [index |-> into \div 8, bit |-> into % 8]

\* The u8 product or sum of get_index leaves 8 bits.
get_index_overflows(x, y) ==
    \/ y * WIDTH > 255
    \/ ((y * WIDTH) % 256) + x > 255

(***************************************************************************)
(* Transactions. Every intermediate result that is used more than once is  *)
(* handed on as an operator argument, so that it is computed once.         *)
(***************************************************************************)
\* Mutant: chip-select is released before the bytes are written.
end_transaction_releases_first(buf, v, r, high_ok) ==
    [buffer |-> buf, vcom |-> v,
     log |-> <<PinEv("set_low", TRUE), PinEv("set_high", high_ok)>> \o r.w,
     ok |-> high_ok /\ ~r.failure]

\* Mutant: a failed write returns at once, chip-select is left asserted.
end_transaction_returns_early(buf, v, r, high_ok) ==
    [buffer |-> buf, vcom |-> v,
     log |-> IF r.failure
             THEN <<PinEv("set_low", TRUE)>> \o r.w
             ELSE <<PinEv("set_low", TRUE)>> \o r.w \o <<PinEv("set_high", high_ok)>>,
     ok |-> high_ok /\ ~r.failure]

\* The tail shared by clear and refresh once chip-select is taken: set_high,
\* then Err if set_high failed, Err if failure, Ok otherwise.
end_transaction(buf, v, r, high_ok) ==
    [buffer |-> buf, vcom |-> v,
     log |-> <<PinEv("set_low", TRUE)>> \o r.w \o <<PinEv("set_high", high_ok)>>,
     ok |-> high_ok /\ ~r.failure]

\* Mutant: a refused chip-select still flips the polarity.
no_transaction_toggles(buf, v) ==
    [buffer |-> buf, vcom |-> ~v, log |-> <<PinEv("set_low", FALSE)>>, ok |-> FALSE]

\* Mutant: a refused chip-select is still released.
no_transaction_releases(buf, v) ==
    [buffer |-> buf, vcom |-> v,
     log |-> <<PinEv("set_low", FALSE), PinEv("set_high", TRUE)>>, ok |-> FALSE]

\* The early return of clear and refresh when set_low fails.
no_transaction(buf, v) ==
    [buffer |-> buf, vcom |-> v, log |-> <<PinEv("set_low", FALSE)>>, ok |-> FALSE]

(***************************************************************************)
(* clear                                                                   *)
(***************************************************************************)
\* Mutant: the failure of the data byte is swallowed.
clear_after_data_swallows(w2) == [w |-> w2, failure |-> FALSE]

\* w2: the writes once write_byte(0) has been called.
clear_after_data(w2) == [w |-> w2, failure |-> ~LastOk(w2)]

\* Mutant: the data byte is written whatever became of the command byte.
clear_after_command_goes_on(w1, bus) ==
    [w |-> write_byte(w1, 0, bus), failure |-> ~LastOk(w1) \/ ~WriteOk(bus, Len(w1) + 1)]

\* w1: the writes once write_byte(command) has been called.
clear_after_command(w1, bus) ==
    IF LastOk(w1)
    THEN clear_after_data(write_byte(w1, 0, bus))
    ELSE [w |-> w1, failure |-> TRUE]

clear_writes(cmd, bus) == clear_after_command(write_byte(<<>>, cmd, bus), bus)

\* c: the result of self.command(CommandBit::ClearBit).
clear_transaction(c, env) ==
    end_transaction(ZeroBuffer, c.vcom, clear_writes(c.byte, env.bus), env.high_ok)

\* Mutant: the buffer is zeroed only once chip-select is taken.
clear_zeroes_after_select(buf, v, env) ==
    IF ~env.low_ok
    THEN no_transaction(buf, v)
    ELSE clear_transaction(command(v, ClearBit), env)

\* Every byte of the buffer is zeroed before anything else.
clear(buf, v, env) ==
    IF ~env.low_ok
    THEN no_transaction([i \in DOMAIN buf |-> 0], v)
    ELSE clear_transaction(command(v, ClearBit), env)

(***************************************************************************)
(* refresh                                                                 *)
(***************************************************************************)
\* The locals of the loop: the writes so far, old_line, and failure, which
\* is set exactly when the loop breaks.
LoopState(w, old_line, failure) == [w |-> w, old_line |-> old_line, failure |-> failure]

\* w3: the writes once write_byte(current_line) has been called.
iteration_after_line(w3, st, current_line) ==
    IF ~LastOk(w3)
    THEN LoopState(w3, st.old_line, TRUE)
    ELSE LoopState(w3, current_line, FALSE)

\* w2: the writes once the line terminator write_byte(0) has been called.
iteration_after_terminator(w2, st, current_line, bus) ==
    IF ~LastOk(w2)
    THEN LoopState(w2, st.old_line, TRUE)
    ELSE IF current_line <= HEIGHT
         THEN iteration_after_line(write_byte(w2, current_line, bus), st, current_line)
         ELSE LoopState(w2, current_line, FALSE)

\* w1: the writes once write_byte(self.buffer[i]) has been called.
iteration_after_data(w1, st, current_line, bus) ==
    IF ~LastOk(w1)
    THEN LoopState(w1, st.old_line, TRUE)
    ELSE IF current_line # st.old_line
         THEN iteration_after_terminator(write_byte(w1, 0, bus), st, current_line, bus)
         ELSE LoopState(w1, st.old_line, FALSE)

\* current_line = (((i+1)/(WIDTH as usize/8)) + 1) as u8
current_line_of(i) == (((i + 1) \div (WIDTH \div 8)) + 1) % 256

\* Mutant: every iteration sends the first byte of the buffer.
refresh_iteration_first_byte(i, st, buf, bus) ==
    iteration_after_data(write_byte(st.w, buf[1], bus), st, current_line_of(i), bus)

\* One iteration of `for i in 0..BUFFER_SIZE`.
refresh_iteration(i, st, buf, bus) ==
    iteration_after_data(write_byte(st.w, buf[i + 1], bus), st, current_line_of(i), bus)

\* Iterations lo..hi-1 in ascending order, stopping at the first break. The
\* range is split in halves only to keep the evaluation shallow.
RECURSIVE refresh_loop(_, _, _, _, _)
refresh_loop(lo, hi, st, buf, bus) ==
    IF st.failure \/ lo >= hi
    THEN st
    ELSE IF hi = lo + 1
    THEN refresh_iteration(lo, st, buf, bus)
    ELSE refresh_loop((lo + hi) \div 2, hi,
                      refresh_loop(lo, (lo + hi) \div 2, st, buf, bus), buf, bus)

\* w2: the writes once the write_byte(0) that follows the loop has been
\* called; it is called however the loop ended.
refresh_after_final(w2, failure) == [w |-> w2, failure |-> failure \/ ~LastOk(w2)]

\* st: the locals when the loop is left.
refresh_after_loop(st, bus) == refresh_after_final(write_byte(st.w, 0, bus), st.failure)

\* w1: the writes once write_byte(cmd) has been called.
refresh_after_command(w1, buf, bus) ==
    IF LastOk(w1)
    THEN refresh_after_loop(refresh_loop(0, BUFFER_SIZE, LoopState(w1, 1, FALSE), buf, bus), bus)
    ELSE [w |-> w1, failure |-> TRUE]

refresh_writes(cmd, buf, bus) ==
    refresh_after_command(write_byte(<<>>, cmd, bus), buf, bus)

\* Mutant: the buffer is zeroed once it has been sent.
refresh_transaction_zeroes(buf, c, env) ==
    end_transaction(ZeroBuffer, c.vcom, refresh_writes(c.byte, buf, env.bus), env.high_ok)

\* c: the result of self.command(CommandBit::WriteCmd).
refresh_transaction(buf, c, env) ==
    end_transaction(buf, c.vcom, refresh_writes(c.byte, buf, env.bus), env.high_ok)

refresh(buf, v, env) ==
    IF ~env.low_ok
    THEN no_transaction(buf, v)
    ELSE refresh_transaction(buf, command(v, WriteCmd), env)

(***************************************************************************)
(* new                                                                     *)
(***************************************************************************)
\* Mutant: the result of the initial clear() is dropped.
new_after_clear_unchecked(r) ==
    [buffer |-> r.buffer, vcom |-> r.vcom,
     log |-> <<PinEv("set_high", TRUE)>> \o r.log,
     ok |-> TRUE, cleared |-> TRUE]

\* r: the result of display.clear() on the fresh display.
new_after_clear(r) ==
    [buffer |-> r.buffer, vcom |-> r.vcom,
     log |-> <<PinEv("set_high", TRUE)>> \o r.log,
     ok |-> r.ok, cleared |-> TRUE]

\* The fresh display has a zero buffer and vcom true; set_high, then clear().
new(init_high_ok, env) ==
    IF ~init_high_ok
    THEN [buffer |-> ZeroBuffer, vcom |-> TRUE,
          log |-> <<PinEv("set_high", FALSE)>>, ok |-> FALSE, cleared |-> FALSE]
    ELSE new_after_clear(clear(ZeroBuffer, TRUE, env))

(***************************************************************************)
(* set_pixel / get_pixel                                                   *)
(***************************************************************************)
\* The guard of both: `if x > WIDTH || y > HEIGHT { return }`.
out_of_range(x, y) == x > WIDTH \/ y > HEIGHT

set_pixel(buf, x, y, black) ==
    IF out_of_range(x, y)
    THEN buf
    ELSE LET g == get_index(x, y)
         IN  [buf EXCEPT ![g.index + 1] =
                 IF black THEN SetBit(@, g.bit) ELSE ClearBitOf(@, g.bit)]

get_pixel(buf, x, y) ==
    IF out_of_range(x, y)
    THEN [tag |-> "None", val |-> FALSE]
    ELSE LET g == get_index(x, y)
         IN  [tag |-> "Some", val |-> TestBit(buf[g.index + 1], g.bit)]

\* set_pixel and get_pixel panic when get_index is reached, overflows, and
\* the build checks overflow.
pixel_panics(chk, x, y) == chk /\ ~out_of_range(x, y) /\ get_index_overflows(x, y)

\* What a call of get_pixel yields in a build: a panic, or its return value.
get_pixel_call(chk, buf, x, y) ==
    IF pixel_panics(chk, x, y) THEN [tag |-> "panic", val |-> FALSE] ELSE get_pixel(buf, x, y)

(***************************************************************************)
(* Inputs of the calls                                                     *)
(***************************************************************************)
RowBytes == WIDTH \div 8

\* Writes of a refresh in which nothing fails: the command, the buffer, one
\* terminator per line change, one line number per line change up to HEIGHT,
\* and the final terminator.
FullRefreshWrites ==
    1 + BUFFER_SIZE + (BUFFER_SIZE \div RowBytes)
      + (IF BUFFER_SIZE \div RowBytes + 1 <= HEIGHT
         THEN BUFFER_SIZE \div RowBytes ELSE HEIGHT - 1) + 1

\* Positions of the failing write: none, the first writes, the first line
\* terminator, the line number after it, the data byte after that, and the
\* last write of a full refresh.
RefreshFailAts ==
    (0..MaxFailAt) \cup {RowBytes + 2, RowBytes + 3, RowBytes + 4, FullRefreshWrites}
ClearFailAts == 0..2

NoFault == [at |-> 0, sticky |-> FALSE]
Buses(ats) == {NoFault} \cup [at : ats \ {0}, sticky : BOOLEAN]
Env(low_ok, high_ok, bus) == [low_ok |-> low_ok, high_ok |-> high_ok, bus |-> bus]
\* Chip-select refused (nothing else is consulted), or chip-select taken with
\* every bus behaviour and either outcome of the release.
Envs(ats) == {Env(FALSE, TRUE, NoFault)}
             \cup {Env(TRUE, h, b) : h \in BOOLEAN, b \in Buses(ats)}

NoCmd == 0 - 1
Unit == [tag |-> "Unit", val |-> FALSE]
Res(ok) == [tag |-> IF ok THEN "Ok" ELSE "Err", val |-> FALSE]
Panic == [tag |-> "panic", val |-> FALSE]
Call(op, x, y, black, res) == [op |-> op, x |-> x, y |-> y, black |-> black, res |-> res]

\* The command byte a clear()/refresh() handed to the bus writer, if any.
TxCmd(tx) == IF Len(tx) >= 2 /\ tx[2].ev = "write" THEN tx[2].byte ELSE NoCmd
TxEntry(tx, ok) == [cmd |-> TxCmd(tx), ok |-> ok]

(***************************************************************************)
(* Initial state: no display built yet                                     *)
(***************************************************************************)
Init ==
    /\ pc = "start"
    /\ overflow_checks \in BOOLEAN
    /\ buffer = ZeroBuffer
    /\ vcom = TRUE
    /\ log = <<>>
    /\ last = Call("none", 0, 0, FALSE, Unit)
    /\ old_buffer = ZeroBuffer
    /\ old_vcom = TRUE
    /\ cmds = <<>>
    /\ calls = 0
    /\ cs = "unknown"
    /\ old_cs = "unknown"
    /\ pin_faults = FALSE

(***************************************************************************)
(* Public operations                                                       *)
(***************************************************************************)
New ==
    /\ pc = "start"
    /\ \E init_high_ok \in BOOLEAN, env \in Envs(ClearFailAts) :
         \E r \in {new(init_high_ok, env)} :
             /\ pc' = IF r.ok THEN "ready" ELSE "dropped"
             /\ buffer' = r.buffer
             /\ vcom' = r.vcom
             /\ log' = r.log
             /\ last' = Call("new", 0, 0, FALSE, Res(r.ok))
             /\ cmds' = IF r.cleared THEN <<TxEntry(Tail(r.log), r.ok)>> ELSE <<>>
             /\ cs' = cs_after(cs, r.log)
             /\ pin_faults' = (pin_faults \/ PinFailed(r.log))
    /\ old_buffer' = buffer
    /\ old_vcom' = vcom
    /\ old_cs' = cs
    /\ UNCHANGED <<overflow_checks, calls>>

Clear ==
    /\ pc = "ready"
    /\ calls < MaxCalls
    /\ \E env \in Envs(ClearFailAts) :
         \E r \in {clear(buffer, vcom, env)} :
             /\ buffer' = r.buffer
             /\ vcom' = r.vcom
             /\ log' = r.log
             /\ last' = Call("clear", 0, 0, FALSE, Res(r.ok))
             /\ cmds' = Append(cmds, TxEntry(r.log, r.ok))
             /\ cs' = cs_after(cs, r.log)
             /\ pin_faults' = (pin_faults \/ PinFailed(r.log))
    /\ old_buffer' = buffer
    /\ old_vcom' = vcom
    /\ old_cs' = cs
    /\ calls' = calls + 1
    /\ UNCHANGED <<pc, overflow_checks>>

Refresh ==
    /\ pc = "ready"
    /\ calls < MaxCalls
    /\ \E env \in Envs(RefreshFailAts) :
         \E r \in {refresh(buffer, vcom, env)} :
             /\ buffer' = r.buffer
             /\ vcom' = r.vcom
             /\ log' = r.log
             /\ last' = Call("refresh", 0, 0, FALSE, Res(r.ok))
             /\ cmds' = Append(cmds, TxEntry(r.log, r.ok))
             /\ cs' = cs_after(cs, r.log)
             /\ pin_faults' = (pin_faults \/ PinFailed(r.log))
    /\ old_buffer' = buffer
    /\ old_vcom' = vcom
    /\ old_cs' = cs
    /\ calls' = calls + 1
    /\ UNCHANGED <<pc, overflow_checks>>

SetPixel ==
    /\ pc = "ready"
    /\ calls < MaxCalls
    /\ \E c \in PixelCoords, black \in BOOLEAN :
         LET x == c[1]
             y == c[2]
         IN  IF pixel_panics(overflow_checks, x, y)
             THEN /\ pc' = "panicked"
                  /\ buffer' = buffer
                  /\ last' = Call("set_pixel", x, y, black, Panic)
             ELSE /\ pc' = pc
                  /\ buffer' = set_pixel(buffer, x, y, black)
                  /\ last' = Call("set_pixel", x, y, black, Unit)
    /\ log' = <<>>
    /\ old_buffer' = buffer
    /\ old_vcom' = vcom
    /\ old_cs' = cs
    /\ calls' = calls + 1
    /\ UNCHANGED <<overflow_checks, vcom, cmds, cs, pin_faults>>

GetPixel ==
    /\ pc = "ready"
    /\ calls < MaxCalls
    /\ \E c \in PixelCoords :
         LET x == c[1]
             y == c[2]
         IN  /\ pc' = IF pixel_panics(overflow_checks, x, y) THEN "panicked" ELSE pc
             /\ last' = Call("get_pixel", x, y, FALSE,
                             get_pixel_call(overflow_checks, buffer, x, y))
    /\ log' = <<>>
    /\ old_buffer' = buffer
    /\ old_vcom' = vcom
    /\ old_cs' = cs
    /\ calls' = calls + 1
    /\ UNCHANGED <<overflow_checks, buffer, vcom, cmds, cs, pin_faults>>

Next == New \/ Clear \/ Refresh \/ SetPixel \/ GetPixel

Spec == Init /\ [][Next]_vars

(***************************************************************************)
(* Observations on the latest call                                         *)
(***************************************************************************)
\* The latest public call ran clear() or refresh(): directly, or as the
\* initial clear() of new() once its set_high had succeeded.
TxCalled == \/ last.op \in {"clear", "refresh"}
            \/ last.op = "new" /\ log[1].ok

\* The events of that clear()/refresh(): new() adds its set_high in front.
TxLog == IF last.op = "new" THEN Tail(log) ELSE log

\* Chip-select assertion succeeded in that clear()/refresh().
SelectTaken == TxCalled /\ TxLog[1].ev = "set_low" /\ TxLog[1].ok

IsWrite(e) == e.ev = "write"
TxWrites == SelectSeq(TxLog, IsWrite)
TxWriteBytes == [k \in 1..Len(TxWrites) |-> TxWrites[k].byte]
AllOk(events) == \A i \in DOMAIN events : events[i].ok
SomeWriteFailed == \E i \in DOMAIN TxLog : IsWrite(TxLog[i]) /\ ~TxLog[i].ok
Polarity(byte) == TestBit(byte, 6)

(***************************************************************************)
(* Claims                                                                  *)
(***************************************************************************)

C2_UnconditionalToggle == SelectTaken => vcom = ~old_vcom

\* A refresh() whose command byte failed and whose set_high failed as well.
C2_Witness ==
    /\ last.op = "refresh"
    /\ SelectTaken
    /\ ~TxLog[2].ok
    /\ ~TxLog[Len(TxLog)].ok
    /\ vcom = ~old_vcom

\* C3: once a byte write of a clear()/refresh() has failed, no further byte
\* write is attempted in that call.
C3_AbortOnFirstWriteFailure ==
    TxCalled =>
        \A i, j \in DOMAIN TxLog :
            (i < j /\ IsWrite(TxLog[i]) /\ ~TxLog[i].ok) => ~IsWrite(TxLog[j])

\* C4: a clear()/refresh() whose chip-select assertion succeeded attempts
\* set_high exactly once, after its last byte write, whether or not a byte
\* write failed.
C4_CleanupOnFailure ==
    SelectTaken =>
        /\ Cardinality({i \in DOMAIN TxLog : TxLog[i].ev = "set_high"}) = 1
        /\ TxLog[Len(TxLog)].ev = "set_high"

\* A refresh() in which a data byte failed and chip-select was released.
C4_Witness ==
    /\ last.op = "refresh"
    /\ SelectTaken
    /\ TxLog[2].ok
    /\ SomeWriteFailed
    /\ TxLog[Len(TxLog)].ev = "set_high"

\* C5: when set_low fails, clear()/refresh() returns Err at once: no byte is
\* written and set_high is not attempted.
C5_SelectFailureAborts ==
    (TxCalled /\ ~TxLog[1].ok) =>
        /\ TxLog = <<PinEv("set_low", FALSE)>>
        /\ last.res.tag = "Err"

\* A refresh() whose set_low failed.
C5_Witness ==
    /\ last.op = "refresh"
    /\ ~TxLog[1].ok
    /\ Len(TxLog) = 1

AddressedLineFraming(buf) ==
    [k \in 1..(HEIGHT * (RowBytes + 2) + 1) |->
        LET row == (k - 1) \div (RowBytes + 2)
            col == (k - 1) % (RowBytes + 2)
        IN  IF k = HEIGHT * (RowBytes + 2) + 1 THEN 0
            ELSE IF col = 0 THEN row + 1
            ELSE IF col = RowBytes + 1 THEN 0
            ELSE buf[row * RowBytes + col]]

\* C7: when nothing fails, the bytes refresh() writes after the command byte
\* are the addressed-line framing of the buffer.
C7_AddressedLineFraming ==
    (last.op = "refresh" /\ AllOk(log))
    => Tail(TxWriteBytes) = AddressedLineFraming(buffer)

\* C8: when nothing fails, clear() does set_low, writes one clear command
\* byte, writes one 0x00, does set_high, and nothing else; when the command
\* byte fails the 0x00 is not written.
C8_ClearTransaction ==
    (TxCalled /\ last.op # "refresh") =>
        /\ AllOk(TxLog) =>
              /\ Len(TxLog) = 4
              /\ TxLog[1] = PinEv("set_low", TRUE)
              /\ TxLog[2] \in {WriteEv(ClearBit, TRUE), WriteEv(ClearBit + VcomBit, TRUE)}
              /\ TxLog[3] = WriteEv(0, TRUE)
              /\ TxLog[4] = PinEv("set_high", TRUE)
        /\ (SelectTaken /\ ~TxLog[2].ok) => Len(TxWrites) = 1

\* A clear() call in which nothing failed.
C8_Witness ==
    /\ last.op = "clear"
    /\ last.res.tag = "Ok"
    /\ Len(log) = 4

\* C9: new() does set_high first and then one clear(); it returns Err when
\* that set_high fails, with no clear() and no byte written, or when the
\* clear() fails; otherwise it returns Ok with every buffer byte zero.
C9_ConstructionContract ==
    last.op = "new" =>
        /\ log[1].ev = "set_high"
        /\ ~log[1].ok => (Len(log) = 1 /\ last.res.tag = "Err")
        /\ log[1].ok =>
              /\ Len(log) >= 2
              /\ log[2].ev = "set_low"
              /\ Cardinality({i \in DOMAIN log : log[i].ev = "set_low"}) = 1
              /\ SelectTaken => (Len(TxWrites) >= 1 /\ TxWrites[1].byte = ClearBit + VcomBit)
        /\ last.res.tag = "Ok" <=> AllOk(log)
        /\ last.res.tag = "Ok" => (pc = "ready" /\ buffer = ZeroBuffer)
        /\ last.res.tag = "Err" => pc = "dropped"

\* A new() whose set_high succeeded and whose clear() lost its data byte.
C9_Witness ==
    /\ last.op = "new"
    /\ log[1].ok
    /\ SomeWriteFailed
    /\ last.res.tag = "Err"

\* C10: for every coordinate x < WIDTH, y < HEIGHT and every value, a
\* get_pixel(x, y) right after set_pixel(x, y, value) returns Some(value).
C10_SetGetRoundTrip ==
    (last.op = "set_pixel" /\ last.x < WIDTH /\ last.y < HEIGHT) =>
        /\ last.res.tag = "Unit"
        /\ get_pixel_call(overflow_checks, buffer, last.x, last.y)
              = [tag |-> "Some", val |-> last.black]

\* The coordinates of the display: x < WIDTH, y < HEIGHT.
ValidCoords == (0..(WIDTH - 1)) \X (0..(HEIGHT - 1))
InRange(x, y) == x < WIDTH /\ y < HEIGHT
Some(v) == [tag |-> "Some", val |-> v]
None == [tag |-> "None", val |-> FALSE]

\* C11: set_pixel(x, y, v) at a coordinate of the display changes the value
\* of get_pixel at no other coordinate of the display; it changes at most
\* byte (y*WIDTH + x) / 8 of the buffer, the offset taken without wrap-around.
C11_CoordinateMappingInjective ==
    (last.op = "set_pixel" /\ InRange(last.x, last.y)) =>
        /\ \A c \in ValidCoords \ {<<last.x, last.y>>} :
               get_pixel_call(overflow_checks, buffer, c[1], c[2])
                 = get_pixel_call(overflow_checks, old_buffer, c[1], c[2])
        /\ \A i \in 1..BUFFER_SIZE :
               i # ((last.y * WIDTH + last.x) \div 8) + 1 => buffer[i] = old_buffer[i]

\* C12: get_pixel(x, y) returns None when x >= WIDTH or y >= HEIGHT, the
\* values x = WIDTH and y = HEIGHT included, and Some(bit) otherwise.
C12_GetPixelRange ==
    last.op = "get_pixel" =>
        last.res.tag = (IF InRange(last.x, last.y) THEN "Some" ELSE "None")

\* C13: set_pixel(x, y, dark) with x >= WIDTH or y >= HEIGHT, the values
\* x = WIDTH and y = HEIGHT included, leaves every buffer byte as it was.
C13_SetPixelOutOfRangeNoOp ==
    (last.op = "set_pixel" /\ ~InRange(last.x, last.y)) => buffer = old_buffer

\* C14: after a clear() that returned Ok, get_pixel(x, y) returns Some(false)
\* at every coordinate of the display.
C14_ClearedPixelsAreLight ==
    (last.op = "clear" /\ last.res.tag = "Ok") =>
        \A c \in ValidCoords :
            get_pixel_call(overflow_checks, buffer, c[1], c[2]) = Some(FALSE)

\* C15: refresh() leaves every buffer byte as it was, whatever fails.
C15_RefreshKeepsBuffer == last.op = "refresh" => buffer = old_buffer

\* A refresh() of a buffer with a dark pixel, in which a write failed.
C15_Witness ==
    /\ last.op = "refresh"
    /\ SomeWriteFailed
    /\ old_buffer # ZeroBuffer
    /\ buffer = old_buffer

\* pins: the pin events of the latest call.
Discipline(pins) ==
    /\ \A i \in DOMAIN log :
          IsWrite(log[i]) => LevelBefore(old_cs, log, pins, i) = "low"
    /\ \A i \in pins :
          LevelBefore(old_cs, log, pins, i)
            = (IF log[i].ev = "set_low" THEN "high"
               ELSE IF last.op = "new" /\ i = 1 THEN "unknown" ELSE "low")
    /\ cs = "high"

\* C16: as long as no pin operation has failed, a byte is handed to the bus
\* writer only while chip-select is low, set_low and set_high alternate
\* after the set_high of new(), and chip-select is high whenever a public
\* operation returns, also when byte writes failed.
C16_TransactionDiscipline ==
    (last.op # "none" /\ ~pin_faults) => Discipline(PinIdx(log))

\* A second call after new(), a refresh() with a failed write, no pin fault.
C16_Witness ==
    /\ calls = 2
    /\ ~pin_faults
    /\ last.op = "refresh"
    /\ SomeWriteFailed
    /\ old_cs = "high"
    /\ cs = "high"

Opcode(op) == IF op = "refresh" THEN WriteCmd ELSE ClearBit
IsIssued(e) == e.cmd # NoCmd

\* C17: the first byte written by clear() is 0x20, by refresh() 0x80, each
\* with 0x40 added exactly when vcom was true on entry; no other command
\* byte is ever sent.
C17_CommandByteComposition ==
    /\ SelectTaken =>
          TxWrites[1].byte = Opcode(last.op) + (IF old_vcom THEN VcomBit ELSE 0)
    /\ \A k \in DOMAIN cmds :
          IsIssued(cmds[k]) =>
              cmds[k].cmd \in {ClearBit, ClearBit + VcomBit, WriteCmd, WriteCmd + VcomBit}

\* A refresh() entered with vcom true: its command byte is 0xC0.
C17_Witness ==
    /\ last.op = "refresh"
    /\ SelectTaken
    /\ old_vcom
    /\ TxWrites[1].byte = WriteCmd + VcomBit

\* Position, in the bytes that follow the command byte, of buffer byte i
\* (from 0): one terminator per line change before it, and one line number
\* per line change up to line HEIGHT.
DataPos(i) ==
    LET q == i \div RowBytes
    IN  i + 1 + q + (IF q < HEIGHT THEN q ELSE HEIGHT - 1)

\* sent: the bytes a refresh wrote after its command byte.
WholeFrame(sent, buf) ==
    /\ Len(sent) = DataPos(BUFFER_SIZE - 1) + 1
    /\ \A i \in 0..(BUFFER_SIZE - 1) : sent[DataPos(i)] = buf[i + 1]
    /\ sent[Len(sent)] = 0
    /\ \A k \in (1..Len(sent)) \ {DataPos(i) : i \in 0..(BUFFER_SIZE - 1)} :
          sent[k] = 0 \/ sent[k] \in 2..HEIGHT

\* C18: in a refresh() in which nothing fails, every buffer byte is written
\* exactly once, in ascending index order, after the command byte and before
\* the final 0x00; what lies between them is terminators and line numbers,
\* and without those the bytes sent are the buffer.
C18_WholeFrameTransfer ==
    (last.op = "refresh" /\ AllOk(log)) => WholeFrame(Tail(TxWriteBytes), buffer)

\* A full refresh() of a buffer with a dark pixel.
C18_Witness ==
    /\ last.op = "refresh"
    /\ last.res.tag = "Ok"
    /\ buffer # ZeroBuffer
    /\ Len(TxWrites) = FullRefreshWrites

IssuedCmds == SelectSeq(cmds, IsIssued)

\* C19: whatever fails, the command bytes handed to the bus writer alternate
\* their polarity bit from one to the next; vcom is flipped in exactly the
\* calls that attempt a command byte, so a call whose set_low fails leaves
\* vcom as it was.
C19_AlternationUnderFailures ==
    /\ \A k \in 1..(Len(IssuedCmds) - 1) :
          Polarity(IssuedCmds[k + 1].cmd) = ~Polarity(IssuedCmds[k].cmd)
    /\ TxCalled => (vcom # old_vcom <=> Len(TxWrites) >= 1)
    /\ (TxCalled /\ ~TxLog[1].ok) => vcom = old_vcom

\* A call whose set_low failed, between new() and a call whose command byte
\* was sent but that returned Err.
C19_Witness ==
    /\ Len(cmds) = 3
    /\ ~IsIssued(cmds[2])
    /\ IsIssued(cmds[3])
    /\ ~cmds[3].ok

\* C20: the buffer is all zero after clear() returns, also when it returns
\* Err: set_low failed, a write failed, or set_high failed.
C20_ClearZeroesOnFailure == last.op = "clear" => buffer = ZeroBuffer

\* A clear() whose set_low failed, called on a buffer with a dark pixel.
C20_Witness ==
    /\ last.op = "clear"
    /\ last.res.tag = "Err"
    /\ ~log[1].ok
    /\ old_buffer # ZeroBuffer
    /\ buffer = ZeroBuffer

====
